---- MODULE Spec2Model ----
(***************************************************************************)
(* The syntax-highlighting cache of the editor                            *)
(* (src/ide_app1/languageSupport/syntax.py) and the editor operations     *)
(* that attach it to a document (src/ide_app1/main.py, window.py).        *)
(*                                                                         *)
(* A document text is a sequence of characters over a three-letter        *)
(* alphabet: a blank, a newline and a quote.  A token class is the path   *)
(* of its names below the root class Token, as the                        *)
(* lexer library builds it: Token.Keyword.Type is <<"Keyword", "Type">>,  *)
(* the root Token is <<>>, and the parent of a class is the path without  *)
(* its last name.                                                         *)
(***************************************************************************)
EXTENDS Integers, Sequences, FiniteSets, TLC

\* ------------------------------------------------------------------ bounds
\* Longest document text.
MaxLen == 2
\* Width in bits of the text fingerprint.  The interpreter's hash() is a
\* fixed-width digest of a text of any length, so distinct texts can share
\* a fingerprint; the width is scaled down with the texts.
HashBits == 3
\* Longest token class path drawn as an input of style resolution.
MaxDepth == 3
\* Longest file path drawn as an input of get_language_name.
MaxPathLen == 4
\* Most highlighter objects alive at once.
MaxObjects == 3
\* The paths there are beyond the entries a recent list keeps.
ExtraPaths == 1
\* Most additions of a path that was added before.
MaxRepeats == 1
\* Longest language name of the language menu.
MaxNameLen == 4
\* Longest text typed into the search box of the language menu.
MaxSearchLen == 2

\* ---------------------------------------------------------------- alphabet
SP == "SP"
NL == "NL"
QT == "QT"
Alphabet == {SP, NL, QT}

RECURSIVE SeqsUpTo(_, _)
SeqsUpTo(S, n) ==
    IF n = 0 THEN {<<>>}
    ELSE LET shorter == SeqsUpTo(S, n - 1)
         IN  shorter \cup {Append(s, x) : s \in shorter, x \in S}

Texts == SeqsUpTo(Alphabet, MaxLen)

\* ------------------------------------------------------------ token classes
Token == <<>>
Token_Text == <<"Text">>
\* Token.Whitespace as the highlighter's filter spells it: a child of the root.
Token_Whitespace == <<"Whitespace">>
\* The class the lexer library gives whitespace: Whitespace = Text.Whitespace.
Whitespace == <<"Text", "Whitespace">>
Token_String == <<"String">>
Token_Error == <<"Error">>

\* token_type.parent, for a class other than the root (whose parent is None).
Parent(token_type) == SubSeq(token_type, 1, Len(token_type) - 1)

\* ------------------------------------------------------------------- styles
_create_format(color, bold, italic) ==
    [color |-> color, bold |-> bold, italic |-> italic]

TOKEN_COLORS ==
    (<<"Keyword">> :> <<"#569cd6", TRUE, FALSE>>) @@
    (<<"Keyword", "Type">> :> <<"#4ec9b0", FALSE, FALSE>>) @@
    (<<"Name">> :> <<"#d4d4d4", FALSE, FALSE>>) @@
    (<<"Name", "Function">> :> <<"#dcdcaa", FALSE, FALSE>>) @@
    (<<"Name", "Class">> :> <<"#4ec9b0", FALSE, FALSE>>) @@
    (<<"Name", "Builtin">> :> <<"#4ec9b0", FALSE, FALSE>>) @@
    (<<"String">> :> <<"#ce9178", FALSE, FALSE>>) @@
    (<<"String", "Doc">> :> <<"#6a9955", FALSE, TRUE>>) @@
    (<<"Number">> :> <<"#b5cea8", FALSE, FALSE>>) @@
    (<<"Comment">> :> <<"#6a9955", FALSE, TRUE>>) @@
    (<<"Comment", "Multiline">> :> <<"#6a9955", FALSE, TRUE>>) @@
    (<<"Operator">> :> <<"#d4d4d4", FALSE, FALSE>>) @@
    (<<"Punctuation">> :> <<"#d4d4d4", FALSE, FALSE>>) @@
    (<<"Text">> :> <<"#d4d4d4", FALSE, FALSE>>) @@
    (<<"Error">> :> <<"#f44747", FALSE, FALSE>>)

RuleFormat(token_type) ==
    _create_format(TOKEN_COLORS[token_type][1], TOKEN_COLORS[token_type][2],
                   TOKEN_COLORS[token_type][3])

DefaultFormat == _create_format("#d4d4d4", FALSE, FALSE)

\* The while loop of _get_format_for_token, entered with parent = Parent(t):
\* the root has no parent, so the walk from the root ends with the default.
RECURSIVE WalkParents(_)
WalkParents(token_type) ==
    IF token_type = Token THEN DefaultFormat
    ELSE IF Parent(token_type) \in DOMAIN TOKEN_COLORS
         THEN RuleFormat(Parent(token_type))
         ELSE WalkParents(Parent(token_type))

\* A resolution that walks from the root downwards, taking the first class
\* with a rule: the farthest ancestor instead of the nearest.
RECURSIVE WalkFromRoot(_, _)
WalkFromRoot(token_type, n) ==
    IF n > Len(token_type) THEN DefaultFormat
    ELSE IF SubSeq(token_type, 1, n) \in DOMAIN TOKEN_COLORS
         THEN RuleFormat(SubSeq(token_type, 1, n))
         ELSE WalkFromRoot(token_type, n + 1)

FormatFromRoot(token_type) == WalkFromRoot(token_type, 1)

_get_format_for_token(token_type) ==
    IF token_type \in DOMAIN TOKEN_COLORS THEN RuleFormat(token_type)
    ELSE WalkParents(token_type)

\* ------------------------------------------------------------ the lexer
\* lex(full_text, self.lexer) of the lexer library, as the highlighter sees
\* it: a stream of (token_type, token_value) pairs whose values, joined, are
\* the text with a newline added when it does not end with one (the lexers
\* are built with stripnl=False and the library's default ensurenl).
\* Four lexers stand for the library's:
\*   "text"    one Token.Text token holding the whole text;
\*   "code"    runs of blanks and newlines are Token.Text, a quoted run up
\*             to the closing quote (newlines included) is String and a
\*             quote that is never closed is a one-character Error token;
\*   "codews"  as "code", with blanks and newlines of class Whitespace;
\*   "faulty"  as "code", but the generator raises when it reaches a blank.
LexerKinds == {"text", "code", "codews", "faulty"}

EnsureNl(text) ==
    IF text # <<>> /\ text[Len(text)] = NL THEN text ELSE Append(text, NL)

\* The end of the run of character c that starts at position i of s.
RECURSIVE RunEnd(_, _, _)
RunEnd(s, i, c) ==
    IF i < Len(s) /\ s[i + 1] = c THEN RunEnd(s, i + 1, c) ELSE i

\* The position of the first quote of s after position i, 0 when none.
RECURSIVE NextQuote(_, _)
NextQuote(s, i) ==
    IF i >= Len(s) THEN 0
    ELSE IF s[i + 1] = QT THEN i + 1 ELSE NextQuote(s, i + 1)

BlankClass(kind) == IF kind = "codews" THEN Whitespace ELSE Token_Text

Tok(token_type, token_value) ==
    [token_type |-> token_type, token_value |-> token_value]

\* The tokens of s from position i on, and whether the generator raised
\* after yielding them.
RECURSIVE Scan(_, _, _)
Scan(kind, s, i) ==
    IF i > Len(s) THEN [tokens |-> <<>>, raises |-> FALSE]
    ELSE IF s[i] = SP /\ kind = "faulty"
         THEN [tokens |-> <<>>, raises |-> TRUE]
    ELSE LET j == IF s[i] = QT
                  THEN (IF NextQuote(s, i) = 0 THEN i ELSE NextQuote(s, i))
                  ELSE IF s[i] = NL THEN i
                  ELSE RunEnd(s, i, s[i])
             cls == IF s[i] = QT
                    THEN (IF NextQuote(s, i) = 0 THEN Token_Error
                          ELSE Token_String)
                    ELSE BlankClass(kind)
             rest == Scan(kind, s, j + 1)
         IN  [tokens |-> <<Tok(cls, SubSeq(s, i, j))>> \o rest.tokens,
              raises |-> rest.raises]

lex(full_text, kind) ==
    IF kind = "text"
    THEN [tokens |-> <<Tok(Token_Text, EnsureNl(full_text))>>, raises |-> FALSE]
    ELSE Scan(kind, EnsureNl(full_text), 1)

\* ------------------------------------------------------------ fingerprint
Code(c) == CASE c = SP -> 1 [] c = NL -> 2 [] c = QT -> 3

HashSpace == 2 ^ HashBits

\* hash(full_text): a digest of HashBits bits; the empty text hashes to 0.
RECURSIVE hash(_)
hash(text) ==
    IF text = <<>> THEN 0
    ELSE (hash(SubSeq(text, 1, Len(text) - 1)) * 5 + Code(text[Len(text)]))
             % HashSpace

\* self._last_text_hash = None: no hash value equals it.
None == -1

\* ------------------------------------------------------ _tokenize_document
\* token_value.split("\n")
RECURSIVE Split(_)
Split(value) ==
    IF \A i \in 1..Len(value) : value[i] # NL THEN <<value>>
    ELSE LET k == CHOOSE i \in 1..Len(value) :
                     value[i] = NL /\ \A j \in 1..(i - 1) : value[j] # NL
         IN  <<SubSeq(value, 1, k - 1)>>
                 \o Split(SubSeq(value, k + 1, Len(value)))

Span(col, length, token_type) ==
    [col |-> col, length |-> length, token_type |-> token_type]

\* self._block_tokens.setdefault(line, []).append(span)
SetDefaultAppend(block_tokens, line, span) ==
    IF line \in DOMAIN block_tokens
    THEN [block_tokens EXCEPT ![line] = Append(@, span)]
    ELSE block_tokens @@ (line :> <<span>>)

\* A filter that stores empty parts too.
StoredEvenIfEmpty(line_part, token_type) ==
    token_type \notin {Token_Text, Token_Whitespace}

\* The filter of line 298: the part is stored when it is not empty and the
\* class is neither Token.Text nor Token.Whitespace.
Stored(line_part, token_type) ==
    line_part # <<>> /\ token_type \notin {Token_Text, Token_Whitespace}

\* A cursor that stays where it is.
NoAdvance(line_part) == 0

\* The columns a stored or skipped part advances the cursor by (line 302).
Advance(line_part) == Len(line_part)

\* One turn of the inner loop (lines 293-302) on part i (0-based) of a token.
\* cur is the cursor and the index: [line, col, block_tokens].
PartStep(cur, i, line_part, token_type) ==
    LET line == IF i > 0 THEN cur.line + 1 ELSE cur.line
        col == IF i > 0 THEN 0 ELSE cur.col
    IN  [line |-> line,
         col |-> col + Advance(line_part),
         block_tokens |->
             IF Stored(line_part, token_type)
             THEN SetDefaultAppend(cur.block_tokens, line,
                                   Span(col, Len(line_part), token_type))
             ELSE cur.block_tokens]

RECURSIVE PartsLoop(_, _, _, _)
PartsLoop(cur, lines, i, token_type) ==
    IF i >= Len(lines) THEN cur
    ELSE PartsLoop(PartStep(cur, i, lines[i + 1], token_type), lines, i + 1,
                   token_type)

RECURSIVE TokensLoop(_, _, _)
TokensLoop(cur, tokens, k) ==
    IF k > Len(tokens) THEN cur
    ELSE TokensLoop(PartsLoop(cur, Split(tokens[k].token_value), 0,
                              tokens[k].token_type),
                    tokens, k + 1)

EmptyIndex == <<>>

\* What is left in self._block_tokens when the try block of lines 290-304 is
\* left, normally or through the except clause: the spans of the tokens the
\* generator yielded before it ended or raised.
BuildIndex(stream) ==
    TokensLoop([line |-> 0, col |-> 0, block_tokens |-> EmptyIndex],
               stream.tokens, 1).block_tokens

\* A method without the except clause: what the lexer raises leaves it.
PropagatesUncaught(stream) == stream.raises

\* Whether an exception of the lexer leaves _tokenize_document: the except
\* clause of line 303 swallows it.
Propagates(stream) == FALSE

\* _tokenize_document as a function of the fields it reads: the new
\* _last_text_hash and _block_tokens, whether lex() ran, whether it raised
\* and whether the exception left the method.
\* The early return of line 282.
Kept(last_text_hash, block_tokens) ==
    [last_text_hash |-> last_text_hash, block_tokens |-> block_tokens,
     rebuilt |-> FALSE, failed |-> FALSE, raised |-> FALSE]

\* Lines 284-304: the fingerprint is stored, then the index is rebuilt.
Rebuilt(full_text, kind) ==
    LET stream == lex(full_text, kind)
    IN  [last_text_hash |-> hash(full_text),
         block_tokens |-> BuildIndex(stream),
         rebuilt |-> TRUE, failed |-> stream.raises,
         raised |-> stream.raises /\ Propagates(stream)]

\* A method that tokenizes the first text it sees and never again.
TokenizeOnce(full_text, kind, last_text_hash, block_tokens) ==
    IF last_text_hash # None THEN Kept(last_text_hash, block_tokens)
    ELSE Rebuilt(full_text, kind)

\* A method that stores the fingerprint only when the rebuild succeeded.
TokenizeRetrying(full_text, kind, last_text_hash, block_tokens) ==
    IF hash(full_text) = last_text_hash
    THEN Kept(last_text_hash, block_tokens)
    ELSE IF Rebuilt(full_text, kind).failed
         THEN [Rebuilt(full_text, kind) EXCEPT
                  !.last_text_hash = last_text_hash]
         ELSE Rebuilt(full_text, kind)

\* A method that patches the index it finds instead of starting from an
\* empty one.
TokenizePatching(full_text, kind, last_text_hash, block_tokens) ==
    IF hash(full_text) = last_text_hash
    THEN Kept(last_text_hash, block_tokens)
    ELSE [Rebuilt(full_text, kind) EXCEPT
             !.block_tokens =
                 TokensLoop([line |-> 0, col |-> 0,
                             block_tokens |-> block_tokens],
                            lex(full_text, kind).tokens, 1).block_tokens]

\* A method that tokenizes on every call, whatever the fingerprint.
TokenizeAlways(full_text, kind, last_text_hash, block_tokens) ==
    Rebuilt(full_text, kind)

\* The rebuild of every document text under every lexer.
Rebuilds ==
    [full_text \in Texts, kind \in LexerKinds |-> Rebuilt(full_text, kind)]

_tokenize_document(full_text, kind, last_text_hash, block_tokens) ==
    IF hash(full_text) = last_text_hash
    THEN Kept(last_text_hash, block_tokens)
    ELSE Rebuilds[full_text, kind]

\* ------------------------------------------------- languages and lexers
PYGMENTS_AVAILABLE == TRUE

\* get_lexer_by_name / get_lexer_for_filename of the lexer library raise
\* ClassNotFound when no lexer is registered for the alias or the file name.
ClassNotFound == "ClassNotFound"

\* The aliases the library knows ("plugin" is a lexer a plugin registers).
LexerAliases ==
    ("python" :> "code") @@ ("c" :> "codews") @@ ("css" :> "codews") @@
    ("text" :> "text") @@ ("plugin" :> "faulty")

get_lexer_by_name(alias) ==
    IF alias \in DOMAIN LexerAliases THEN LexerAliases[alias]
    ELSE ClassNotFound

DISPLAY_NAME_TO_ALIAS ==
    ("C Header" :> "c") @@ ("C++ Header" :> "cpp") @@
    ("JavaScript (JSX)" :> "jsx") @@ ("TypeScript (TSX)" :> "tsx") @@
    ("Git Ignore" :> "gitignore") @@ ("QSS" :> "css")

\* The language names a caller passes: the names of the language menu, and
\* names no lexer is registered for.
LanguageNames ==
    {"Plain Text", "Python", "QSS", "Plugin", "Text only",
     "Not A Real Language"}

\* str.lower() on the names and aliases in use.
Lower(name) ==
    CASE name = "Python" -> "python"
      [] name = "Plugin" -> "plugin"
      [] name = "Text only" -> "text only"
      [] name = "Not A Real Language" -> "not a real language"
      [] name = "Plain Text" -> "plain text"
      [] OTHER -> name

\* A file path is the sequence of its characters.
MainPy == <<"m", "a", "i", "n", ".", "p", "y">>
StyleQss == <<"s", "t", "y", "l", "e", ".", "q", "s", "s">>
NotesTxt == <<"n", "o", "t", "e", "s", ".", "t", "x", "t">>
Readme == <<"R", "E", "A", "D", "M", "E">>
DataXyz == <<"d", "a", "t", "a", ".", "x", "y", "z">>

\* The file paths a caller passes.
FilePaths == {<<>>, MainPy, StyleQss, NotesTxt, Readme, DataXyz}

\* str.lower(), character by character.
Uppers == <<"A", "B", "C", "D", "E", "F", "G", "H", "I", "J", "K", "L", "M", "N", "O", "P", "Q", "R", "S", "T", "U", "V", "W", "X", "Y", "Z">>
Lowers == <<"a", "b", "c", "d", "e", "f", "g", "h", "i", "j", "k", "l", "m", "n", "o", "p", "q", "r", "s", "t", "u", "v", "w", "x", "y", "z">>

LowerChar(c) ==
    IF \E i \in 1..Len(Uppers) : Uppers[i] = c
    THEN Lowers[CHOOSE i \in 1..Len(Uppers) : Uppers[i] = c]
    ELSE c

lower(s) == [i \in 1..Len(s) |-> LowerChar(s[i])]

\* The components of a path: the runs between slashes, without the empty
\* ones and the "." ones, which Path drops.
RECURSIVE Parts(_, _)
Parts(path, part) ==
    IF path = <<>>
    THEN (IF part \in {<<>>, <<".">>} THEN <<>> ELSE <<part>>)
    ELSE IF Head(path) = "/"
         THEN (IF part \in {<<>>, <<".">>} THEN <<>> ELSE <<part>>)
                  \o Parts(Tail(path), <<>>)
         ELSE Parts(Tail(path), Append(part, Head(path)))

\* Path(file_path).name: the final component, empty when there is none.
PathName(file_path) ==
    LET parts == Parts(file_path, <<>>)
    IN  IF parts = <<>> THEN <<>> ELSE parts[Len(parts)]

\* str.rfind("."), 1-based: 0 when the name has no dot.
RFindDot(s) ==
    IF \A i \in 1..Len(s) : s[i] # "." THEN 0
    ELSE CHOOSE i \in 1..Len(s) :
             s[i] = "." /\ \A j \in (i + 1)..Len(s) : s[j] # "."

\* Path(file_path).suffix: the name from its last dot on, empty when the
\* name has no dot, starts with its only dot or ends with a dot.
suffix(file_path) ==
    LET n == PathName(file_path)
        i == RFindDot(n)
    IN  IF 1 < i /\ i < Len(n) THEN SubSeq(n, i, Len(n)) ELSE <<>>

EndsWith(s, tail) ==
    Len(s) >= Len(tail) /\ SubSeq(s, Len(s) - Len(tail) + 1, Len(s)) = tail

\* The file-name patterns the library's lexers register ("*.py", "*.txt"),
\* matched against the final component of the path.
get_lexer_for_filename(file_path) ==
    IF EndsWith(PathName(file_path), <<".", "p", "y">>) THEN "code"
    ELSE IF EndsWith(PathName(file_path), <<".", "t", "x", "t">>) THEN "text"
    ELSE ClassNotFound

LANGUAGE_NAMES ==
    (<<".", "p", "y">> :> "Python") @@
    (<<".", "j", "s">> :> "JavaScript") @@
    (<<".", "h", "t", "m", "l">> :> "HTML") @@
    (<<".", "c", "s", "s">> :> "CSS") @@
    (<<".", "j", "s", "o", "n">> :> "JSON") @@
    (<<".", "m", "d">> :> "Markdown") @@
    (<<".", "c">> :> "C") @@
    (<<".", "c", "p", "p">> :> "C++") @@
    (<<".", "c", "s">> :> "C#") @@
    (<<".", "j", "a", "v", "a">> :> "Java") @@
    (<<".", "r", "s">> :> "Rust") @@
    (<<".", "g", "o">> :> "Go") @@
    (<<".", "t", "s">> :> "TypeScript") @@
    (<<".", "q", "s", "s">> :> "QSS") @@
    (<<".", "s", "h">> :> "Bash") @@
    (<<".", "y", "a", "m", "l">> :> "YAML")

\* A lookup of the suffix as it is spelt, without lower().
LanguageNameCaseSensitive(file_path) ==
    IF file_path = <<>> THEN "Plain Text"
    ELSE IF suffix(file_path) \in DOMAIN LANGUAGE_NAMES
         THEN LANGUAGE_NAMES[suffix(file_path)]
         ELSE "Plain Text"

get_language_name(file_path) ==
    IF file_path = <<>> THEN "Plain Text"
    ELSE IF lower(suffix(file_path)) \in DOMAIN LANGUAGE_NAMES
         THEN LANGUAGE_NAMES[lower(suffix(file_path))]
         ELSE "Plain Text"

\* The pair a factory returns: the lexer of the new UniversalHighlighter
\* (NoHighlighter for None), the language name, and whether it raised.
NoHighlighter == "None"

Made(lexer, name) == [lexer |-> lexer, name |-> name, raised |-> FALSE]

NotFound == Made(NoHighlighter, "Plain Text")

\* A factory without the except clause: ClassNotFound leaves it.
Reraised == [lexer |-> NoHighlighter, name |-> "Plain Text", raised |-> TRUE]

\* The except clause of a factory (lines 400-401 and 412-413).
OnClassNotFound == NotFound

create_highlighter(file_path) ==
    IF ~PYGMENTS_AVAILABLE \/ file_path = <<>> THEN NotFound
    ELSE LET lang_name == get_language_name(file_path)
             ext == lower(suffix(file_path))
             lexer == IF ext = <<".", "q", "s", "s">>
                      THEN get_lexer_by_name("css")
                      ELSE get_lexer_for_filename(file_path)
         IN  IF lexer = ClassNotFound THEN OnClassNotFound
             ELSE Made(lexer, lang_name)

create_highlighter_by_name(language_name) ==
    IF ~PYGMENTS_AVAILABLE \/ language_name = "Plain Text" THEN NotFound
    ELSE LET alias == Lower(IF language_name \in DOMAIN DISPLAY_NAME_TO_ALIAS
                            THEN DISPLAY_NAME_TO_ALIAS[language_name]
                            ELSE language_name)
             lexer == get_lexer_by_name(alias)
         IN  IF lexer = ClassNotFound THEN OnClassNotFound
             ELSE Made(lexer, language_name)

\* create_completer: the completer is the sorted union of the keywords and
\* snippet names of the language's entry of LANGUAGE_COMPLETIONS, empty for a
\* language without an entry.  It is named here by that entry.
create_completer(language_name) ==
    IF language_name \in {"Python", "JavaScript", "C"} THEN language_name
    ELSE "empty"

\* ------------------------------------------------------------- settings
\* A JSON value: a scalar (string, number, boolean, null, here by its
\* text), a list, or a dict from keys to values.
Scalar(value) == [kind |-> "scalar", value |-> value]

List(items) == [kind |-> "list", items |-> items]

Dict(items) == [kind |-> "dict", items |-> items]

\* isinstance(value, dict)
IsDict(value) == value.kind = "dict"

Version == "2.1.2"

\* The DEFAULT_SETTINGS table as the module defines it (main.py, 55-79).
HardcodedSettings ==
    ("version" :> Scalar(Version)) @@
    ("mode" :> Scalar("full")) @@
    ("editor" :> Dict(("fontSize" :> Scalar("11")) @@
                      ("tabSize" :> Scalar("4")) @@
                      ("wordWrap" :> Scalar("False")) @@
                      ("fontFamily" :> Scalar("Consolas")))) @@
    ("terminal" :> Dict(("fontSize" :> Scalar("10")) @@
                        ("fontFamily" :> Scalar("Consolas")) @@
                        ("shell_windows" :> Scalar("cmd.exe")) @@
                        ("shell_unix" :> Scalar("/bin/bash")))) @@
    ("appearance" :> Dict(("theme" :> Scalar("dark")) @@
                          ("useSystemFont" :> Scalar("False")))) @@
    ("recentFiles" :> List(<<>>)) @@
    ("recentFolders" :> List(<<>>)) @@
    ("window" :> Dict(("width" :> Scalar("1100")) @@
                      ("height" :> Scalar("800")) @@
                      ("sidebarWidth" :> Scalar("250")) @@
                      ("terminalHeight" :> Scalar("200"))))

\* Settings._recursive_update, by the items base_dict holds after it: a dict
\* of update_dict is merged into a dict base_dict has under the same key,
\* any other value replaces what base_dict has.
RECURSIVE _recursive_update(_, _)
_recursive_update(base_dict, update_dict) ==
    [key \in DOMAIN base_dict \cup DOMAIN update_dict |->
        IF key \notin DOMAIN update_dict THEN base_dict[key]
        ELSE IF /\ IsDict(update_dict[key])
                /\ key \in DOMAIN base_dict
                /\ IsDict(base_dict[key])
             THEN Dict(_recursive_update(base_dict[key].items,
                                         update_dict[key].items))
             ELSE update_dict[key]]

\* What DEFAULT_SETTINGS holds after _recursive_update(merged, data) on
\* merged = DEFAULT_SETTINGS.copy(): the copy is shallow, so a dict of the
\* table that the update recurses into is the table's own dict and changes
\* with it; a key the update assigns changes in the copy alone.
DefaultsAfterMerge(defaults, update_dict) ==
    [key \in DOMAIN defaults |->
        IF /\ key \in DOMAIN update_dict
           /\ IsDict(update_dict[key])
           /\ IsDict(defaults[key])
        THEN Dict(_recursive_update(defaults[key].items,
                                    update_dict[key].items))
        ELSE defaults[key]]

\* A candidate file as load finds it: missing (exists() is false), not
\* readable (read_text raises OSError), not UTF-8 (read_text raises
\* UnicodeDecodeError), not JSON (json.loads raises JSONDecodeError), or
\* holding a JSON value.
File(state, value) == [state |-> state, value |-> value]

Missing == File("missing", Scalar(""))
Unreadable == File("unreadable", Scalar(""))
Undecodable == File("undecodable", Scalar(""))
Invalid == File("invalid", Scalar(""))

\* The JSON objects a settings file holds in the model.
FileDicts ==
    {<<>>,
     "mode" :> Scalar("safe"),
     "editor" :> Dict("fontSize" :> Scalar("14")),
     "editor" :> Scalar("none"),
     "mode" :> Dict("name" :> Scalar("safe")),
     "plugins" :> Dict("enabled" :> Scalar("True")),
     "window" :> Dict(("width" :> Scalar("640")) @@
                      ("split" :> Dict("ratio" :> Scalar("2"))))}

FileStates ==
    {Missing, Unreadable, Undecodable, Invalid,
     File("json", Scalar("42")), File("json", List(<<>>))}
        \cup {File("json", Dict(items)) : items \in FileDicts}

\* The except clause of load: json.JSONDecodeError and OSError.
Caught(file) == file.state \in {"invalid", "unreadable"}

\* The try block of load raises on this file.
Raises(file) == file.state \in {"invalid", "unreadable", "undecodable"}

\* The keys under which the dict load returns holds the very object the
\* table holds: DEFAULT_SETTINGS.copy() copies the top level only, and
\* _recursive_update assigns a key of the copy unless it recurses into it.
SharedAfterMerge(defaults, update_dict) ==
    {key \in DOMAIN defaults :
        key \in DOMAIN update_dict
            => IsDict(update_dict[key]) /\ IsDict(defaults[key])}

\* Settings.load on the candidates from position k on: whether it raised,
\* the dict it returned, DEFAULT_SETTINGS after it, and the keys whose
\* values the two share.
RECURSIVE load(_, _, _)
load(candidates, k, defaults) ==
    IF k > Len(candidates)
    THEN [raised |-> FALSE, data |-> defaults, defaults |-> defaults,
          shared |-> DOMAIN defaults]
    ELSE LET file == candidates[k]
         IN  IF file.state = "missing" THEN load(candidates, k + 1, defaults)
             ELSE IF Raises(file)
                  THEN (IF Caught(file) THEN load(candidates, k + 1, defaults)
                        ELSE [raised |-> TRUE, data |-> <<>>,
                              defaults |-> defaults, shared |-> {}])
             ELSE IF IsDict(file.value)
                  THEN [raised |-> FALSE,
                        data |-> _recursive_update(defaults,
                                                   file.value.items),
                        defaults |-> DefaultsAfterMerge(defaults,
                                                        file.value.items),
                        shared |-> SharedAfterMerge(defaults,
                                                    file.value.items)]
                  ELSE load(candidates, k + 1, defaults)

\* Settings.get(key, default=...) with one key.
get(settings, key, default) ==
    IF key \in DOMAIN settings THEN settings[key] ELSE default

\* Settings.set(key, value=...) with one key.
set(settings, key, value) ==
    [k \in DOMAIN settings \cup {key} |->
        IF k = key THEN value ELSE settings[k]]

\* Settings.set(key, subkey, value=...): the value under key is fetched with
\* setdefault and assigned into; it is the table's own dict when the two are
\* shared.  The result is the dict of the Settings object and the table.
set_nested(settings, defaults, shared_keys, key, subkey, value) ==
    LET inner == IF key \in DOMAIN settings THEN settings[key].items
                 ELSE <<>>
        assigned == Dict(set(inner, subkey, value))
    IN  [data |-> set(settings, key, assigned),
         defaults |-> IF key \in shared_keys
                      THEN [defaults EXCEPT ![key] = assigned]
                      ELSE defaults]

\* The most entries a recent list keeps.
MaxRecent == 10

\* The paths of files and folders, named by number.
RecentPaths == 1..(MaxRecent + ExtraPaths)

RecentKeys == {"recentFiles", "recentFolders"}

\* path in recent
In(recent, path) == \E i \in 1..Len(recent) : recent[i] = path

\* A removal that removes nothing.
KeepAll(recent, path) == recent

\* recent.remove(path): the first occurrence goes.
remove(recent, path) ==
    LET i == CHOOSE i \in 1..Len(recent) :
                 /\ recent[i] = path
                 /\ \A j \in 1..(i - 1) : recent[j] # path
    IN  SubSeq(recent, 1, i - 1) \o SubSeq(recent, i + 1, Len(recent))

\* The body of add_recent_file and add_recent_folder on the list object
\* recent: the list object after remove and insert, and the slice that is
\* stored.
add_recent(recent, path) ==
    LET kept == IF In(recent, path) THEN remove(recent, path) ELSE recent
        inserted == <<path>> \o kept
    IN  [list |-> inserted,
         stored |-> SubSeq(inserted, 1,
                           IF Len(inserted) < MaxRecent THEN Len(inserted)
                           ELSE MaxRecent)]

\* Settings.detect_mode: the environment flags and the write check of the
\* base path come before the stored mode.
detect_mode(settings, IDE_SAFE_MODE, IDE_RESTRICTED_MODE, writable) ==
    IF IDE_SAFE_MODE THEN "safe"
    ELSE IF IDE_RESTRICTED_MODE THEN "restricted"
    ELSE IF ~writable THEN "safe"
    ELSE get(settings, "mode", Scalar("full")).value

\* ----------------------------------------------------------- the terminal
SafeModeText == "Terminal disabled in Safe Mode"

\* A terminal that stays enabled in every mode.
AlwaysEnabled(mode) == TRUE

\* The argument of Terminal.setEnabled in _build_remaining_ui and SetMode.
EnabledIn(mode) == mode # "safe"

\* TerminalWidget() in _build_remaining_ui (lines 417-421).
NewTerminal(mode, visible) ==
    [enabled |-> EnabledIn(mode),
     visible |-> visible,
     output |-> IF mode = "safe" THEN SafeModeText ELSE "Terminal started"]

\* The modes of the mode menu.
Modes == {"full", "restricted", "safe"}

\* ------------------------------------------------------ the language menu
\* A language name and a search text are sequences of characters.  The
\* names stand for the lexer names get_all_languages returns.
LangChars == {"a", "B"}

SearchChars == {"a", "B", " "}

_all_languages == SeqsUpTo(LangChars, MaxNameLen) \ {<<>>}

SearchTexts == SeqsUpTo(SearchChars, MaxSearchLen)

\* The code points of the characters in use.
Ord(c) == CASE c = " " -> 32 [] c = "B" -> 66 [] c = "a" -> 97 [] c = "b" -> 98

\* Python's order of strings: by code point, a prefix before its extensions.
RECURSIVE StrLess(_, _)
StrLess(x, y) ==
    IF y = <<>> THEN FALSE
    ELSE IF x = <<>> THEN TRUE
    ELSE IF Head(x) # Head(y) THEN Ord(Head(x)) < Ord(Head(y))
    ELSE StrLess(Tail(x), Tail(y))

\* text.strip() is empty
Blank(text) == \A i \in 1..Len(text) : text[i] = " "

\* str.startswith
StartsWith(s, prefix) ==
    Len(s) >= Len(prefix) /\ SubSeq(s, 1, Len(prefix)) = prefix

\* needle in s
Contains(s, needle) ==
    \E i \in 0..(Len(s) - Len(needle)) :
        SubSeq(s, i + 1, i + Len(needle)) = needle

\* The sort key of line 347 orders x before y; names with equal keys keep
\* the order of the sorted list of all languages.
KeyLess(filter_lower, x, y) ==
    LET kx == ~StartsWith(lower(x), filter_lower)
        ky == ~StartsWith(lower(y), filter_lower)
    IN  IF kx # ky THEN ky
        ELSE IF lower(x) # lower(y) THEN StrLess(lower(x), lower(y))
        ELSE StrLess(x, y)

\* The names of a set in the order of the sort key.
RECURSIVE Sorted(_, _)
Sorted(names, filter_lower) ==
    IF names = {} THEN <<>>
    ELSE LET first == CHOOSE x \in names :
                          \A y \in names \ {x} : KeyLess(filter_lower, x, y)
         IN  <<first>> \o Sorted(names \ {first}, filter_lower)

\* The matches of a search text, sorted (lines 344-347).
Matches(text) ==
    Sorted({lang \in _all_languages : Contains(lower(lang), lower(text))},
           lower(text))

\* The matches of every text the search box can hold.
MatchesOf == [text \in SearchTexts |-> Matches(text)]

\* An action of the menu: its text and whether it is enabled.
Action(text, enabled) == [text |-> text, enabled |-> enabled]

NoMatchesFound == Action("No matches found", FALSE)

\* The most result actions a search adds.
MaxShown == 15

\* The menu and the list of search actions: results are the actions of the
\* menu after its fixed ones, _search_actions the list that tracks them,
\* shown the visibility _show_categories sets.
Menu(results, search_actions, shown) ==
    [results |-> results, _search_actions |-> search_actions, shown |-> shown]

\* A clearing that empties the list and leaves the actions in the menu.
ForgetSearchResults(menu) ==
    [menu EXCEPT !._search_actions = <<>>]

\* _clear_search_results: every tracked action is removed from the menu,
\* then the list is emptied.
_clear_search_results(menu) ==
    [menu EXCEPT
        !.results = SelectSeq(menu.results,
                              LAMBDA action :
                                  \A k \in 1..Len(menu._search_actions) :
                                      menu._search_actions[k] # action),
        !._search_actions = <<>>]

\* _show_categories: the Plain Text action, its separator, the category
\* submenus, the separator and the All Languages submenu.
_show_categories(menu, show) ==
    [menu EXCEPT
        !.shown = [plain_text |-> show, plain_text_separator |-> show,
                   category_menus |-> show, all_langs_separator |-> show,
                   all_langs_menu |-> show]]

\* The loop of lines 350-354 and the branch of lines 356-359.
AddResults(menu, matches) ==
    LET added == IF matches = <<>> THEN <<NoMatchesFound>>
                 ELSE [k \in 1..(IF Len(matches) < MaxShown
                                  THEN Len(matches) ELSE MaxShown) |->
                          Action(matches[k], TRUE)]
    IN  [menu EXCEPT !.results = @ \o added,
                     !._search_actions = @ \o added]

_filter_language_menu(menu, text) ==
    LET cleared == _clear_search_results(menu)
    IN  IF Blank(text) THEN _show_categories(cleared, TRUE)
        ELSE AddResults(_show_categories(cleared, FALSE), MatchesOf[text])

\* _on_language_menu_show: clearing a search box that holds text emits
\* textChanged, which runs the filter on the empty text.
_on_language_menu_show(menu, text) ==
    LET after == IF text # <<>> THEN _filter_language_menu(menu, <<>>)
                 ELSE menu
    IN  _clear_search_results(_show_categories(after, TRUE))

\* The menu as SetupUI builds it: actions visible, no search results.
NewMenu == _show_categories(Menu(<<>>, <<>>, <<>>), TRUE)

\* ------------------------------------------------- highlighter objects
\* The highlighter objects alive at once are told apart by a number; an
\* object that nothing refers to any more gives its number back.
ObjectIds == 1..MaxObjects

NoObject == 0

\* A setLanguage that leaves the previous highlighter on the document.
NotDetached(attached, object) == attached

\* if self.Highlighter: self.Highlighter.setDocument(None)
Detached(attached, object) == attached \ {object}

\* The object UniversalHighlighter(document, lexer) creates.
NewObject(attached, object) ==
    CHOOSE id \in ObjectIds \ (attached \cup {object}) :
        \A other \in ObjectIds \ (attached \cup {object}) : id <= other

\* -------------------------------------------------------------- the state
VARIABLES
    docText,          \* Editor.document().toPlainText()
    Highlighter,      \* Editor.Highlighter: the attached highlighter or None
    lexer,            \* Highlighter.lexer
    _block_tokens,    \* Highlighter._block_tokens: line -> spans
    _last_text_hash,  \* Highlighter._last_text_hash
    _format_cache,    \* Highlighter._format_cache: token class -> format
    walks,            \* history: token class -> ancestor walks of the instance
    Language,         \* Editor.Language
    completer,        \* Editor.completer
    instance,         \* the object Editor.Highlighter refers to, or NoObject
    document,         \* the highlighter objects attached to Editor.document()
    lastRebuild,      \* history: the text lex() last ran on, and how it ended
    applied,          \* the last formatting request and what it applied
    lastCall,         \* the last factory call and what it returned
    styleCall,        \* a call of _get_format_for_token and its result
    pathCall,         \* a call of get_language_name and its result
    DEFAULT_SETTINGS, \* the module's DEFAULT_SETTINGS dict, as it is now
    data,             \* Settings.data of the Settings object last built
    loadCall,         \* the last Settings.load: its candidates and outcome
    shared,           \* the keys under which data holds the table's object
    recent,           \* history: the order of last addition of the paths
    Mode,             \* MainWindow.Mode
    Terminal,         \* MainWindow.Terminal: enabled, visible, output text
    windowCall,       \* history: the last window action, and the state before
    _lang_search_box, \* the text of the search box of the language menu
    LanguageMenu      \* the language menu: results, _search_actions, shown

\* The variables of the editor and its highlighter.
editorVars ==
    <<docText, Highlighter, lexer, _block_tokens, _last_text_hash,
      _format_cache, walks, Language, completer, instance, document,
      lastRebuild, applied, lastCall, styleCall>>

settingsVars == <<DEFAULT_SETTINGS, data, loadCall, shared, recent>>

windowVars == <<Mode, Terminal, windowCall, _lang_search_box, LanguageMenu>>

\* The variables outside the editor and its highlighter.
uiVars == <<pathCall, settingsVars, windowVars>>

vars ==
    <<docText, Highlighter, lexer, _block_tokens, _last_text_hash,
      _format_cache, walks, Language, completer, instance, document,
      lastRebuild, applied, lastCall, styleCall, pathCall, DEFAULT_SETTINGS, data, loadCall,
      shared, recent, Mode, Terminal, windowCall, _lang_search_box, LanguageMenu>>

\* One block past the last line any text can have.
Blocks == 0..(MaxLen + 1)

NoRebuild == [ran |-> FALSE, text |-> <<>>, failed |-> FALSE]

\* edits: while no request has been served since the last edit, whether
\* "one" content-changing edit or "several" in a row have been made.
NoRequest ==
    [block |-> -1, spans |-> <<>>, rebuilt |-> FALSE, outcome |-> "none",
     edits |-> "none"]

\* The edits in a row once one more is made.
EditsAfter(request) ==
    IF request.outcome # "none" \/ request.edits = "none" THEN "one"
    ELSE "several"

NoCall == [op |-> "none", arg |-> "", result |-> NotFound]

NoStyleCall == [token_type |-> Token, done |-> FALSE, format |-> <<>>]

NoPathCall == [file_path |-> <<>>, done |-> FALSE, result |-> ""]

NoLoad ==
    [settings_file |-> Missing, defaults_file |-> Missing,
     outcome |-> "none"]

\* No path has been added: rank is the place of a path in the order of
\* last addition (0: never added, the highest: added last), repeats counts
\* the additions of a path added before, up to MaxRepeats.
NoRecent ==
    [rank |-> [key \in RecentKeys |-> [path \in RecentPaths |-> 0]],
     repeats |-> 0]

\* The module has been imported and no Settings object built.
SettingsIdle ==
    /\ DEFAULT_SETTINGS = HardcodedSettings
    /\ data = <<>>
    /\ loadCall = NoLoad
    /\ shared = {}
    /\ recent = NoRecent

NoWindowCall ==
    [op |-> "none", Mode |-> "full", visible |-> FALSE, searched |-> FALSE]

\* A window in full mode that no action has been run on.
WindowIdle ==
    /\ Mode = "full"
    /\ Terminal = NewTerminal("full", FALSE)
    /\ windowCall = NoWindowCall
    /\ _lang_search_box = <<>>
    /\ LanguageMenu = NewMenu

\* Nothing outside the editor has been called.
UiIdle ==
    /\ pathCall = NoPathCall
    /\ SettingsIdle
    /\ WindowIdle

Raised == [NoRequest EXCEPT !.outcome = "raised"]

\* CodeEditor.__init__ (no highlighter, "Plain Text"), and a document of any
\* text typed or loaded since.
EditorFields ==
    /\ docText \in Texts
    /\ Highlighter = NoHighlighter
    /\ instance = NoObject
    /\ document = {}
    /\ lexer = NoHighlighter
    /\ _block_tokens = EmptyIndex
    /\ _last_text_hash = None
    /\ _format_cache = <<>>
    /\ walks = <<>>
    /\ Language = "Plain Text"
    /\ completer = create_completer("Plain Text")
    /\ lastRebuild = NoRebuild
    /\ applied = NoRequest
    /\ lastCall = NoCall

EditorInit ==
    /\ EditorFields
    /\ styleCall = NoStyleCall
    /\ UiIdle

\* An edit that marks the cache clean again when it was already dirty.
EditTogglingDirty(text) ==
    /\ text # docText
    /\ docText' = text
    /\ applied' = [NoRequest EXCEPT !.edits = EditsAfter(applied)]
    /\ _last_text_hash' = IF applied.outcome = "none" /\ applied.edits # "none"
                          THEN hash(text) ELSE _last_text_hash
    /\ UNCHANGED <<Highlighter, instance, document, lexer, _block_tokens,
                   _format_cache, Language,
                   completer, lastRebuild, lastCall, styleCall,
                   walks, uiVars>>

\* A content-changing edit of the document (typing, paste, or the
\* setPlainText of LoadFile).
Edit(text) ==
    /\ text # docText
    /\ docText' = text
    /\ applied' = [NoRequest EXCEPT !.edits = EditsAfter(applied)]
    /\ UNCHANGED <<Highlighter, instance, document, lexer, _block_tokens,
                   _last_text_hash,
                   _format_cache, Language, completer, lastRebuild, lastCall,
                   styleCall,
                   walks, uiVars>>

\* self._block_tokens.get(block_num, [])
Get(block_tokens, block_num) ==
    IF block_num \in DOMAIN block_tokens THEN block_tokens[block_num]
    ELSE <<>>

\* A lookup by setdefault(block_num, []), which inserts the missing entry.
AfterSetDefault(block_tokens, block_num) ==
    IF block_num \in DOMAIN block_tokens THEN block_tokens
    ELSE block_tokens @@ (block_num :> <<>>)

\* What the lookup of line 313 leaves in the index: get() inserts nothing.
AfterGet(block_tokens, block_num) == block_tokens

\* A test that finds no class in the cache.
NeverCached(cache, token_type) == FALSE

\* The test of line 273: the class has an entry in the instance's cache.
Cached(cache, token_type) == token_type \in DOMAIN cache

\* The ancestor walks get_format has run for each class, after the spans:
\* one more for a class not found in the cache (counted up to two).
RECURSIVE WalksAfter(_, _, _, _)
WalksAfter(walked, cache, spans, k) ==
    IF k > Len(spans) THEN walked
    ELSE LET c == spans[k].token_type
             hit == Cached(cache, c)
             count == IF c \in DOMAIN walked THEN walked[c] ELSE 0
         IN  WalksAfter(IF hit THEN walked
                        ELSE [x \in DOMAIN walked \cup {c} |->
                                 IF x = c
                                 THEN (IF count < 2 THEN count + 1 ELSE 2)
                                 ELSE walked[x]],
                        IF hit THEN cache
                        ELSE [x \in DOMAIN cache \cup {c} |->
                                 IF x = c THEN _get_format_for_token(c)
                                 ELSE cache[x]],
                        spans, k + 1)

\* get_format on each class of the spans: a class not yet in the cache is
\* resolved and stored.
RECURSIVE CacheAfter(_, _, _)
CacheAfter(cache, spans, k) ==
    IF k > Len(spans) THEN cache
    ELSE CacheAfter(IF Cached(cache, spans[k].token_type) THEN cache
                    ELSE cache @@ (spans[k].token_type :>
                                      _get_format_for_token(spans[k].token_type)),
                    spans, k + 1)

\* The setFormat calls of line 314, in order.
SetFormats(cache, spans) ==
    [k \in 1..Len(spans) |->
        [col |-> spans[k].col, length |-> spans[k].length,
         token_type |-> spans[k].token_type,
         format |-> cache[spans[k].token_type]]]

\* highlightBlock for the block numbered block_num.
HighlightBlock(block_num) ==
    /\ Highlighter # NoHighlighter
    /\ PYGMENTS_AVAILABLE
    /\ LET t == _tokenize_document(docText, lexer, _last_text_hash,
                                   _block_tokens)
           spans == IF t.raised THEN <<>> ELSE Get(t.block_tokens, block_num)
           cache == CacheAfter(_format_cache, spans, 1)
       IN  /\ _last_text_hash' = t.last_text_hash
           /\ _block_tokens' = IF t.raised THEN t.block_tokens
                               ELSE AfterGet(t.block_tokens, block_num)
           /\ _format_cache' = cache
           /\ walks' = WalksAfter(walks, _format_cache, spans, 1)
           /\ lastRebuild' = IF t.rebuilt
                             THEN [ran |-> TRUE, text |-> docText,
                                   failed |-> t.failed]
                             ELSE lastRebuild
           /\ applied' = [block |-> block_num,
                          spans |-> SetFormats(cache, spans),
                          rebuilt |-> t.rebuilt,
                          outcome |-> IF t.raised THEN "raised"
                                      ELSE "returned",
                          edits |-> "none"]
    /\ UNCHANGED <<docText, Highlighter, instance, document, lexer, Language,
                   completer, lastCall,
                   styleCall, uiVars>>

\* The fields of a highlighter the factory has just built, or of none.
Attach(made) ==
    /\ made.lexer # NoHighlighter
          => ObjectIds \ (document \cup {instance}) # {}
    /\ Highlighter' = IF made.lexer = NoHighlighter THEN NoHighlighter
                      ELSE "UniversalHighlighter"
    /\ instance' = IF made.lexer = NoHighlighter THEN NoObject
                   ELSE NewObject(document, instance)
    /\ document' = IF made.lexer = NoHighlighter
                   THEN Detached(document, instance)
                   ELSE Detached(document, instance)
                            \cup {NewObject(document, instance)}
    /\ lexer' = made.lexer
    /\ _block_tokens' = EmptyIndex
    /\ _last_text_hash' = None
    /\ _format_cache' = <<>>
    /\ walks' = <<>>
    /\ lastRebuild' = NoRebuild
    /\ applied' = NoRequest

\* MainWindow.SetLanguage: the previous highlighter is detached, then the
\* factory's pair is stored.  A factory that raised leaves the editor's
\* fields as they were, with the previous highlighter detached.
SetLanguage(language) ==
    LET made == create_highlighter_by_name(language)
    IN  /\ lastCall' = [op |-> "SetLanguage", arg |-> language,
                        result |-> made]
        /\ IF made.raised
           THEN /\ applied' = Raised
                /\ document' = Detached(document, instance)
                /\ UNCHANGED <<Highlighter, instance, lexer, _block_tokens,
                               _last_text_hash, _format_cache, walks,
                               Language, lastRebuild>>
           ELSE /\ Attach(made)
                /\ Language' = made.name
        /\ UNCHANGED <<docText, completer, styleCall, uiVars>>

\* CodeEditor.setLanguage: as above with the file-path factory, and the
\* completer is replaced by the one of the new language.
setLanguage(file_path) ==
    LET made == create_highlighter(file_path)
    IN  /\ lastCall' = [op |-> "setLanguage", arg |-> file_path,
                        result |-> made]
        /\ IF made.raised
           THEN /\ applied' = Raised
                /\ document' = Detached(document, instance)
                /\ UNCHANGED <<Highlighter, instance, lexer, _block_tokens,
                               _last_text_hash, _format_cache, walks,
                               Language, lastRebuild, completer>>
           ELSE /\ Attach(made)
                /\ Language' = made.name
                /\ completer' = create_completer(made.name)
        /\ UNCHANGED <<docText, styleCall, uiVars>>

\* UniversalHighlighter.__init__: a highlighter just built by a factory
\* for a lexer it found, attached to a document of any text.
Init ==
    /\ docText \in Texts
    /\ \E made \in {create_highlighter_by_name(language) :
                       language \in LanguageNames}
                   \cup {create_highlighter(file_path) :
                            file_path \in FilePaths} :
          /\ made.lexer # NoHighlighter
          /\ Highlighter = "UniversalHighlighter"
          /\ instance = NewObject({}, NoObject)
          /\ document = {instance}
          /\ lexer = made.lexer
          /\ Language = made.name
    /\ completer = create_completer("Plain Text")
    /\ _block_tokens = EmptyIndex
    /\ _last_text_hash = None
    /\ _format_cache = <<>>
    /\ walks = <<>>
    /\ lastRebuild = NoRebuild
    /\ applied = NoRequest
    /\ lastCall = NoCall
    /\ styleCall = NoStyleCall
    /\ UiIdle

\* The highlighter of one document: edits and formatting requests.
Next ==
    \/ \E text \in Texts : Edit(text)
    \/ \E block_num \in Blocks : HighlightBlock(block_num)

Spec == Init /\ [][Next]_vars

\* The editor: language selections, and formatting requests of the attached
\* highlighter.
EditorNext ==
    \/ \E language \in LanguageNames : SetLanguage(language)
    \/ \E file_path \in FilePaths : setLanguage(file_path)
    \/ \E block_num \in Blocks : HighlightBlock(block_num)

EditorSpec == EditorInit /\ [][EditorNext]_vars

\* ------------------------------------------------------ style resolution
\* The names token classes are built from, and the classes drawn as inputs.
ClassNames == {"Keyword", "Type", "Name", "Function", "Unknown", "Custom"}

TokenTypes == SeqsUpTo(ClassNames, MaxDepth)

\* A call of _get_format_for_token on any class, not yet run.
StyleInit ==
    /\ EditorFields
    /\ styleCall \in {[NoStyleCall EXCEPT !.token_type = token_type] :
                         token_type \in TokenTypes}
    /\ UiIdle

ResolveStyle ==
    /\ ~styleCall.done
    /\ styleCall' = [styleCall EXCEPT
                        !.done = TRUE,
                        !.format = _get_format_for_token(styleCall.token_type)]
    /\ UNCHANGED <<docText, Highlighter, instance, document, lexer,
                   _block_tokens,
                   _last_text_hash, _format_cache, Language, completer,
                   lastRebuild, applied, lastCall,
                   walks, uiVars>>

StyleNext == ResolveStyle

StyleSpec == StyleInit /\ [][StyleNext]_vars

\* --------------------------------------------------- language of a path
\* The characters paths are drawn from: a separator, a dot, and letters of
\* the suffixes ".py", ".c" and ".cpp" in both cases.
PathChars == {"/", ".", "p", "y", "P", "Y", "c"}

Paths == SeqsUpTo(PathChars, MaxPathLen)

\* A call of get_language_name on any path, not yet run.
PathInit ==
    /\ EditorFields
    /\ docText = <<>>
    /\ styleCall = NoStyleCall
    /\ pathCall \in {[NoPathCall EXCEPT !.file_path = file_path] :
                        file_path \in Paths}
    /\ SettingsIdle
    /\ WindowIdle

LanguageName ==
    /\ ~pathCall.done
    /\ pathCall' = [pathCall EXCEPT
                       !.done = TRUE,
                       !.result = get_language_name(pathCall.file_path)]
    /\ UNCHANGED <<editorVars, settingsVars, windowVars>>

PathNext == LanguageName

PathSpec == PathInit /\ [][PathNext]_vars

\* ------------------------------------------------------ loading settings
\* Settings(base_path): __init__ stores what load returns; an exception of
\* load leaves __init__, and no object is built.
Load(settings_file, defaults_file) ==
    LET r == load(<<settings_file, defaults_file>>, 1, DEFAULT_SETTINGS)
    IN  /\ loadCall' = [settings_file |-> settings_file,
                        defaults_file |-> defaults_file,
                        outcome |-> IF r.raised THEN "raised"
                                    ELSE "returned"]
        /\ data' = IF r.raised THEN data ELSE r.data
        /\ DEFAULT_SETTINGS' = r.defaults
        /\ shared' = IF r.raised THEN shared ELSE r.shared
        /\ UNCHANGED <<editorVars, pathCall, windowVars, recent>>

SettingsInit ==
    /\ EditorFields
    /\ docText = <<>>
    /\ styleCall = NoStyleCall
    /\ UiIdle

SettingsNext ==
    \E settings_file \in FileStates, defaults_file \in FileStates :
        Load(settings_file, defaults_file)

SettingsSpec == SettingsInit /\ [][SettingsNext]_vars

\* ------------------------------------------------------- the recent lists
\* The order of last addition after path is added under key.
Added(history, key, path) ==
    LET rank == history.rank[key]
        count == Cardinality({other \in RecentPaths : rank[other] > 0})
        after == IF rank[path] = 0
                 THEN [rank EXCEPT ![path] = count + 1]
                 ELSE [other \in RecentPaths |->
                          IF other = path THEN count
                          ELSE IF rank[other] > rank[path]
                               THEN rank[other] - 1
                               ELSE rank[other]]
    IN  [rank |-> [history.rank EXCEPT ![key] = after],
         repeats |-> IF rank[path] > 0 /\ history.repeats < MaxRepeats
                     THEN history.repeats + 1
                     ELSE history.repeats]

\* add_recent_file and add_recent_folder on the list under key.  The list
\* object is changed in place before its slice is stored, so the table's
\* list changes when it is the shared one.  (save() writes the file.)
AddRecent(key, path) ==
    /\ loadCall.outcome = "returned"
    /\ get(data, key, List(<<>>)).kind = "list"
    /\ LET r == add_recent(get(data, key, List(<<>>)).items, path)
       IN  /\ data' = set(data, key, List(r.stored))
           /\ DEFAULT_SETTINGS' =
                 IF key \in shared \cap DOMAIN data
                 THEN [DEFAULT_SETTINGS EXCEPT ![key] = List(r.list)]
                 ELSE DEFAULT_SETTINGS
    /\ shared' = shared \ {key}
    /\ recent' = Added(recent, key, path)
    /\ UNCHANGED <<editorVars, pathCall, loadCall, windowVars>>

\* Settings.add_recent_file, from LoadFile.
AddRecentFile(file_path) == AddRecent("recentFiles", file_path)

\* Settings.add_recent_folder, from OpenFolder.
AddRecentFolder(folder_path) == AddRecent("recentFolders", folder_path)

\* Settings.set with two keys, as the settings dialog and the window's
\* close handler call it, on a value that is a dict or missing.
SetSetting(key, subkey, value) ==
    /\ loadCall.outcome = "returned"
    /\ key \in DOMAIN data => IsDict(data[key])
    /\ LET r == set_nested(data, DEFAULT_SETTINGS, shared, key, subkey, value)
       IN  /\ data' = r.data
           /\ DEFAULT_SETTINGS' = r.defaults
    /\ UNCHANGED <<editorVars, pathCall, loadCall, shared, recent,
                   windowVars>>

\* The paths an addition is drawn from: the next path never added, and,
\* while repeats are left, every path added before.
NextPaths(key) ==
    {path \in RecentPaths :
        /\ recent.rank[key][path] = 0
        /\ \A other \in 1..(path - 1) : recent.rank[key][other] > 0}
    \cup {path \in RecentPaths :
              recent.rank[key][path] > 0 /\ recent.repeats < MaxRepeats}

\* A Settings object built where no settings file exists.
RecentInit ==
    /\ EditorFields
    /\ docText = <<>>
    /\ styleCall = NoStyleCall
    /\ pathCall = NoPathCall
    /\ WindowIdle
    /\ LET r == load(<<Missing, Missing>>, 1, HardcodedSettings)
       IN  /\ loadCall = [settings_file |-> Missing,
                          defaults_file |-> Missing,
                          outcome |-> "returned"]
           /\ data = r.data
           /\ DEFAULT_SETTINGS = r.defaults
           /\ shared = r.shared
    /\ recent = NoRecent

RecentNext ==
    \/ \E file_path \in NextPaths("recentFiles") : AddRecentFile(file_path)
    \/ \E folder_path \in NextPaths("recentFolders") :
          AddRecentFolder(folder_path)

RecentSpec == RecentInit /\ [][RecentNext]_vars

\* The values the settings dialog stores in the model.
DialogValues == {Scalar("11"), Scalar("14")}

\* Settings objects built one after another, and the calls that store
\* into the latest.
DefaultsNext ==
    \/ \E settings_file \in FileStates : Load(settings_file, Missing)
    \/ \E value \in DialogValues : SetSetting("editor", "fontSize", value)
    \/ \E file_path \in 1..2 : AddRecentFile(file_path)
    \/ \E folder_path \in 1..2 : AddRecentFolder(folder_path)

DefaultsSpec == SettingsInit /\ [][DefaultsNext]_vars

\* ------------------------------------------------------------ the window
\* MainWindow.__init__: the settings are loaded from a user file in any
\* state, the mode is detected, the terminal and the language menu are
\* built; the window is shown or not yet.  A construction that raises
\* (load does, or the stored mode is no string) gives no window.
WindowInit ==
    /\ EditorFields
    /\ docText = <<>>
    /\ styleCall = NoStyleCall
    /\ pathCall = NoPathCall
    /\ \E settings_file \in FileStates :
          LET r == load(<<settings_file, Missing>>, 1, HardcodedSettings)
          IN  /\ ~r.raised
              /\ get(r.data, "mode", Scalar("full")).kind = "scalar"
              /\ loadCall = [settings_file |-> settings_file,
                             defaults_file |-> Missing,
                             outcome |-> "returned"]
              /\ data = r.data
              /\ DEFAULT_SETTINGS = r.defaults
              /\ shared = r.shared
              /\ recent = NoRecent
              /\ \E IDE_SAFE_MODE \in BOOLEAN, IDE_RESTRICTED_MODE \in BOOLEAN,
                    writable \in BOOLEAN, visible \in BOOLEAN :
                    /\ Mode = detect_mode(r.data, IDE_SAFE_MODE,
                                          IDE_RESTRICTED_MODE, writable)
                    /\ Terminal = NewTerminal(Mode, visible)
    /\ windowCall = NoWindowCall
    /\ _lang_search_box = <<>>
    /\ LanguageMenu = NewMenu

\* MainWindow.SetMode, from the mode menu.
SetMode(mode) ==
    /\ data' = set(data, "mode", Scalar(mode))
    /\ shared' = shared \ {"mode"}
    /\ Mode' = mode
    /\ Terminal' =
          IF mode = "safe"
          THEN [Terminal EXCEPT !.enabled = EnabledIn(mode),
                                !.output = SafeModeText]
          ELSE [Terminal EXCEPT !.enabled = EnabledIn(mode),
                                !.output = IF @ = SafeModeText THEN ""
                                           ELSE @]
    /\ windowCall' = [op |-> "SetMode", Mode |-> Mode,
                      visible |-> Terminal.visible,
                      searched |-> LanguageMenu.results # <<>>]
    /\ UNCHANGED <<editorVars, pathCall, DEFAULT_SETTINGS, loadCall, recent,
                   _lang_search_box, LanguageMenu>>

\* MainWindow.OpenTerminal, from the View menu or its key binding.
OpenTerminal ==
    /\ Terminal' = IF Mode = "safe" THEN Terminal
                   ELSE [Terminal EXCEPT !.visible = ~Terminal.visible]
    /\ windowCall' = [op |-> "OpenTerminal", Mode |-> Mode,
                      visible |-> Terminal.visible,
                      searched |-> LanguageMenu.results # <<>>]
    /\ UNCHANGED <<editorVars, pathCall, settingsVars, Mode,
                   _lang_search_box, LanguageMenu>>

\* The user changes the text of the search box: textChanged runs
\* _filter_language_menu on the new text.
SearchTextChanged(text) ==
    /\ text # _lang_search_box
    /\ _lang_search_box' = text
    /\ LanguageMenu' = _filter_language_menu(LanguageMenu, text)
    /\ windowCall' = [op |-> "SearchTextChanged", Mode |-> Mode,
                      visible |-> Terminal.visible,
                      searched |-> LanguageMenu.results # <<>>]
    /\ UNCHANGED <<editorVars, pathCall, settingsVars, Mode, Terminal>>

\* The language menu is opened: aboutToShow runs _on_language_menu_show.
LanguageMenuShow ==
    /\ _lang_search_box' = <<>>
    /\ LanguageMenu' = _on_language_menu_show(LanguageMenu, _lang_search_box)
    /\ windowCall' = [op |-> "LanguageMenuShow", Mode |-> Mode,
                      visible |-> Terminal.visible,
                      searched |-> LanguageMenu.results # <<>>]
    /\ UNCHANGED <<editorVars, pathCall, settingsVars, Mode, Terminal>>

WindowNext ==
    \/ \E mode \in Modes : SetMode(mode)
    \/ OpenTerminal
    \/ \E text \in SearchTexts : SearchTextChanged(text)
    \/ LanguageMenuShow

WindowSpec == WindowInit /\ [][WindowNext]_vars

\* ============================================================ the claims
\* A formatting request has been served since the last edit or selection.
Served == applied.outcome = "returned"

\* The spans a request applied, without the resolved formats.
AppliedSpans ==
    [k \in 1..Len(applied.spans) |->
        Span(applied.spans[k].col, applied.spans[k].length,
             applied.spans[k].token_type)]

\* --- a direct tokenization, by absolute offsets
\* The text a token stream spells.
RECURSIVE Joined(_, _)
Joined(tokens, k) ==
    IF k > Len(tokens) THEN <<>>
    ELSE tokens[k].token_value \o Joined(tokens, k + 1)

\* The offset before token k of a stream.
RECURSIVE OffsetOf(_, _)
OffsetOf(tokens, k) ==
    IF k = 1 THEN 0
    ELSE OffsetOf(tokens, k - 1) + Len(tokens[k - 1].token_value)

\* The line and the column of position p of a text.
LineOf(text, p) == Cardinality({q \in 1..(p - 1) : text[q] = NL})

ColOf(text, p) ==
    Cardinality({q \in 1..(p - 1) :
                    text[q] # NL /\ LineOf(text, q) = LineOf(text, p)})

\* The positions of token k that lie on line n, newlines left out.
OnLine(tokens, k, n) ==
    LET text == Joined(tokens, 1)
        from == OffsetOf(tokens, k)
    IN  {p \in (from + 1)..(from + Len(tokens[k].token_value)) :
            text[p] # NL /\ LineOf(text, p) = n}

Least(S) == CHOOSE x \in S : \A y \in S : x <= y

\* A whitespace token: of class Token.Text, or of the library's Whitespace.
IsWhitespace(token_type) == token_type \in {Token_Text, Whitespace}

\* The tokens a direct tokenization assigns to line n, whitespace left out:
\* each with its class, its column on the line and its length on the line.
DirectLine(text, kind, n) ==
    LET tokens == lex(text, kind).tokens
        joined == Joined(tokens, 1)
        on == SelectSeq([k \in 1..Len(tokens) |-> k],
                        LAMBDA k : /\ OnLine(tokens, k, n) # {}
                                   /\ ~IsWhitespace(tokens[k].token_type))
    IN  [j \in 1..Len(on) |->
            Span(ColOf(joined, Least(OnLine(tokens, on[j], n))),
                 Cardinality(OnLine(tokens, on[j], n)),
                 tokens[on[j]].token_type)]

\* C1 (as claimed): the spans a request applies for line n are exactly the
\* non-whitespace tokens a direct tokenization of the document's text
\* assigns to line n, with the same class, column and length.
C1_RoundTrip ==
    (Served /\ ~lex(docText, lexer).raises)
        => AppliedSpans = DirectLine(docText, lexer, applied.block)

C3_FailedRebuildLeavesEmptyIndex ==
    (lastRebuild.ran /\ lastRebuild.failed)
        => (_block_tokens = EmptyIndex /\ applied.spans = <<>>)

Request == \E block_num \in Blocks : HighlightBlock(block_num)

\* A step that serves a formatting request: the only step that records one.
RequestStep == applied'.outcome # "none" /\ docText' = docText

C6_AbsentLine ==
    (Served /\ applied.block \notin
                   DOMAIN BuildIndex(lex(lastRebuild.text, lexer)))
        => (applied.spans = <<>> /\ applied.block \notin DOMAIN _block_tokens)

\* QTextDocument.blockCount(): one block more than the text has newlines.
LineCount(text) == 1 + Cardinality({p \in 1..Len(text) : text[p] = NL})

\* C6 witness: a request past the document's last line, on an index that
\* holds spans.
C6_Witness ==
    /\ Served
    /\ applied.block >= LineCount(docText)
    /\ applied.spans = <<>>
    /\ DOMAIN _block_tokens # {}

\* C9: the spans of each line of the index are ordered by column and do not
\* overlap.
C9_SortedDisjoint ==
    \A line \in DOMAIN _block_tokens :
        \A k \in 1..(Len(_block_tokens[line]) - 1) :
            _block_tokens[line][k].col + _block_tokens[line][k].length
                <= _block_tokens[line][k + 1].col

\* C9 witness: a rebuilt line with two spans.
C9_Witness ==
    /\ lastRebuild.ran
    /\ \E line \in DOMAIN _block_tokens : Len(_block_tokens[line]) >= 2

RECURSIVE SumLengths(_, _)
SumLengths(spans, k) ==
    IF k > Len(spans) THEN 0 ELSE spans[k].length + SumLengths(spans, k + 1)

RECURSIVE TotalLength(_, _)
TotalLength(block_tokens, lines) ==
    IF lines = {} THEN 0
    ELSE LET line == CHOOSE l \in lines : TRUE
         IN  SumLengths(block_tokens[line], 1)
                 + TotalLength(block_tokens, lines \ {line})

\* C10: after a rebuild of a text, the lengths of the stored spans sum to at
\* most the length of the text, and every stored span has a length above 0.
C10_LengthsWithinText ==
    lastRebuild.ran =>
        /\ TotalLength(_block_tokens, DOMAIN _block_tokens)
               <= Len(lastRebuild.text)
        /\ \A line \in DOMAIN _block_tokens :
               \A k \in 1..Len(_block_tokens[line]) :
                   _block_tokens[line][k].length > 0

\* C10 witness: a rebuild whose spans cover a whole text of two characters
\* or more.
C10_Witness ==
    /\ lastRebuild.ran
    /\ lexer = "code"
    /\ Len(lastRebuild.text) >= 2
    /\ TotalLength(_block_tokens, DOMAIN _block_tokens)
           = Len(lastRebuild.text)

\* The rule of the longest prefix of a class that has one (the class itself
\* or its nearest ancestor), the default style when no prefix has a rule.
NearestRule(token_type) ==
    LET ruled == {n \in 1..Len(token_type) :
                     SubSeq(token_type, 1, n) \in DOMAIN TOKEN_COLORS}
    IN  IF ruled = {} THEN DefaultFormat
        ELSE RuleFormat(SubSeq(token_type, 1,
                               CHOOSE n \in ruled : \A m \in ruled : m <= n))

\* C8: the style resolved for a class is the rule of the class itself, else
\* of its nearest ancestor with a rule, else the default style.
C8_NearestAncestorStyle ==
    styleCall.done => styleCall.format = NearestRule(styleCall.token_type)

\* C8 witness: a class two levels below the nearest class with a rule,
\* which has a ruled ancestor above it.
C8_Witness ==
    /\ styleCall.done
    /\ styleCall.token_type = <<"Name", "Function", "Custom">>
    /\ styleCall.format = RuleFormat(<<"Name", "Function">>)
    /\ styleCall.format # RuleFormat(<<"Name">>)

\* The alias create_highlighter_by_name looks a language name up by.
AliasOf(language_name) ==
    IF language_name = "QSS" THEN "css" ELSE Lower(language_name)

\* No lexer is registered for the identifier of the last selection.
UnknownSelection ==
    \/ /\ lastCall.op = "SetLanguage"
       /\ AliasOf(lastCall.arg) \notin DOMAIN LexerAliases
    \/ /\ lastCall.op = "setLanguage"
       /\ lastCall.arg \notin {MainPy, NotesTxt, StyleQss}

\* C7: a selection by a name or a path no lexer is registered for returns
\* (no highlighter, "Plain Text") without raising, and the document is
\* left with no highlighter: no formatting request can be served.
C7_UnknownIsPlainText ==
    /\ lastCall.result.raised = FALSE
    /\ applied.outcome # "raised"
    /\ UnknownSelection =>
           /\ lastCall.result = NotFound
           /\ Highlighter = NoHighlighter
           /\ Language = "Plain Text"
           /\ applied = NoRequest
           /\ ~ENABLED Request

\* C7 witness: an unknown language name selected for a document with text.
C7_Witness ==
    /\ lastCall.op = "SetLanguage"
    /\ lastCall.arg = "Not A Real Language"
    /\ docText # <<>>
    /\ Highlighter = NoHighlighter

\* C11: a request that follows another request with no edit in between does
\* not run the tokenizer and leaves the index and the stored fingerprint as
\* they were: the tokenizer runs at most once while a text is unchanged.
C11_RepeatRequestsReuseIndex ==
    [][(RequestStep /\ applied.outcome # "none")
          => /\ ~applied'.rebuilt
             /\ lastRebuild' = lastRebuild
             /\ _block_tokens' = _block_tokens
             /\ _last_text_hash' = _last_text_hash]_vars

\* C11 witness: a request for the second line served from the index that
\* the rebuild of the unchanged text left, which holds spans.
C11_Witness ==
    /\ Served
    /\ ~applied.rebuilt
    /\ applied.block = 1
    /\ applied.spans # <<>>
    /\ lastRebuild.text = docText
    /\ ~lastRebuild.failed

\* A step that edits the document.
EditStep == docText' # docText

DisplayNames == {LANGUAGE_NAMES[ext] : ext \in DOMAIN LANGUAGE_NAMES}

\* The final component of a path ends with the extension ext in some letter
\* case, after at least one more character.
HasExtension(file_path, ext) ==
    LET n == PathName(file_path)
    IN  /\ Len(n) > Len(ext)
        /\ \A i \in 1..Len(ext) :
               LowerChar(n[Len(n) - Len(ext) + i]) = ext[i]

\* A letter in its other case, any other character as it is.
SwapCase(c) ==
    IF \E i \in 1..Len(Uppers) : Uppers[i] = c THEN LowerChar(c)
    ELSE IF \E i \in 1..Len(Lowers) : Lowers[i] = c
         THEN Uppers[CHOOSE i \in 1..Len(Lowers) : Lowers[i] = c]
         ELSE c

\* The paths that differ from a path only in the case of letters after its
\* last dot.
CaseVariants(file_path) ==
    {[i \in 1..Len(file_path) |->
         IF i \in swapped THEN SwapCase(file_path[i]) ELSE file_path[i]] :
     swapped \in SUBSET ((RFindDot(file_path) + 1)..Len(file_path))}

\* C15: get_language_name returns a display name: the one registered for
\* the extension the path's final component ends with, in whatever letter
\* case the extension is written, and "Plain Text" for the empty path and
\* for a path whose final component ends with no registered extension.
C15_LanguageNameBySuffix ==
    pathCall.done =>
        /\ pathCall.result \in DisplayNames \cup {"Plain Text"}
        /\ pathCall.file_path = <<>> => pathCall.result = "Plain Text"
        /\ \A ext \in DOMAIN LANGUAGE_NAMES :
               HasExtension(pathCall.file_path, ext)
                   => pathCall.result = LANGUAGE_NAMES[ext]
        /\ (\A ext \in DOMAIN LANGUAGE_NAMES :
                ~HasExtension(pathCall.file_path, ext))
               => pathCall.result = "Plain Text"
        /\ \A q \in CaseVariants(pathCall.file_path) :
               get_language_name(q) = pathCall.result

\* C15 witness: a path with the extension of Python in mixed case.
C15_Witness ==
    /\ pathCall.done
    /\ pathCall.file_path = <<"y", ".", "P", "y">>
    /\ pathCall.result = "Python"

\* C16: the cache of the attached instance holds exactly the classes the
\* instance itself has resolved, each through one ancestor walk, with the
\* style a direct resolution gives; so does every span a request applies.
C16_CachePerInstanceResolvedOnce ==
    /\ DOMAIN _format_cache = DOMAIN walks
    /\ \A c \in DOMAIN walks : walks[c] = 1
    /\ \A c \in DOMAIN _format_cache :
           _format_cache[c] = _get_format_for_token(c)
    /\ \A k \in 1..Len(applied.spans) :
           applied.spans[k].format
               = _get_format_for_token(applied.spans[k].token_type)

\* C16 witness: an instance attached by a language selection serves a line
\* with two spans of cached classes without a rebuild.
C16_Witness ==
    /\ lastCall.op = "SetLanguage"
    /\ Served
    /\ ~applied.rebuilt
    /\ Len(applied.spans) >= 2
    /\ Cardinality(DOMAIN _format_cache) >= 2

\* The length of line n of a text.
LineLength(text, n) ==
    Cardinality({p \in 1..Len(text) : text[p] # NL /\ LineOf(text, p) = n})

\* C17 (as claimed): after a rebuild that did not fail, line n of the index
\* holds, in order, one span for each token part that falls on line n and
\* is neither empty nor of a whitespace or Text token, at the column where
\* the part starts on the line and with the part's length; no span reaches
\* past the end of its line.
C17_LineColumnMapping ==
    (lastRebuild.ran /\ ~lastRebuild.failed) =>
        \A n \in Blocks :
            /\ Get(_block_tokens, n) = DirectLine(lastRebuild.text, lexer, n)
            /\ \A k \in 1..Len(Get(_block_tokens, n)) :
                   _block_tokens[n][k].col + _block_tokens[n][k].length
                       <= LineLength(lastRebuild.text, n)

\* A candidate load can use: it exists, is read and parsed, and holds a
\* JSON object.
Usable(file) == file.state = "json" /\ IsDict(file.value)

\* The hardcoded defaults overlaid with the first usable candidate.
ExpectedSettings(settings_file, defaults_file) ==
    IF Usable(settings_file)
    THEN _recursive_update(HardcodedSettings, settings_file.value.items)
    ELSE IF Usable(defaults_file)
         THEN _recursive_update(HardcodedSettings, defaults_file.value.items)
         ELSE HardcodedSettings

\* C18 (as claimed): load does not fail, whatever the candidate files
\* hold, and returns the hardcoded defaults overlaid with the first
\* candidate that exists and parses to a JSON object (the user file before
\* the defaults file), the hardcoded defaults when there is none.
C18_LoadPriority ==
    loadCall.outcome # "none" =>
        /\ loadCall.outcome = "returned"
        /\ data = ExpectedSettings(loadCall.settings_file,
                                   loadCall.defaults_file)

\* C19: the terminal is disabled exactly when the window's mode is "safe",
\* and after OpenTerminal in safe mode the terminal is as visible as it was.
C19_TerminalDisabledInSafeMode ==
    /\ Terminal.enabled <=> Mode # "safe"
    /\ (windowCall.op = "OpenTerminal" /\ windowCall.Mode = "safe")
           => Terminal.visible = windowCall.visible

\* C19 witness: OpenTerminal on the visible terminal of a window that was
\* built without a settings file and switched to safe mode by SetMode.
C19_Witness ==
    /\ windowCall.op = "OpenTerminal"
    /\ windowCall.Mode = "safe"
    /\ Terminal.visible
    /\ ~Terminal.enabled
    /\ data["mode"] = Scalar("safe")
    /\ loadCall.settings_file = Missing

\* The languages a search text matches, stated on the set of all names.
MatchSets ==
    [text \in SearchTexts |->
        {lang \in _all_languages : Contains(lower(lang), lower(text))}]

MatchSet(text) == MatchSets[text]

\* The smaller of two numbers.
Min(a, b) == IF a < b THEN a ELSE b

\* C20: the result actions of the language menu are those of the latest
\* search text only: none when the text is blank, one disabled
\* "No matches found" when a non-blank text matches nothing, otherwise the
\* enabled actions of distinct matches of the text, all of them up to 15;
\* the list of search actions tracks exactly them, and the category
\* entries are visible exactly when the text is blank.
C20_MenuHoldsLatestSearchOnly ==
    LET text == _lang_search_box
        results == LanguageMenu.results
    IN  /\ LanguageMenu._search_actions = results
        /\ Blank(text) => results = <<>>
        /\ (~Blank(text) /\ MatchSet(text) = {})
               => results = <<NoMatchesFound>>
        /\ (~Blank(text) /\ MatchSet(text) # {})
               => /\ Len(results) = Min(Cardinality(MatchSet(text)), MaxShown)
                  /\ \A k \in 1..Len(results) :
                        /\ results[k].enabled
                        /\ results[k].text \in MatchSet(text)
                        /\ \A j \in 1..Len(results) :
                              results[j] = results[k] => j = k
        /\ \A part \in DOMAIN LanguageMenu.shown :
               LanguageMenu.shown[part] <=> Blank(text)

\* C20 witness: a search that follows an earlier one with other results and
\* matches more than 15 languages, of which 15 are in the menu.
C20_Witness ==
    /\ windowCall.op = "SearchTextChanged"
    /\ Cardinality(MatchSet(_lang_search_box)) > MaxShown
    /\ Len(LanguageMenu.results) = MaxShown
    /\ ~LanguageMenu.shown.category_menus
    /\ windowCall.searched

\* C21: create_highlighter returns the name "Plain Text" exactly when it
\* returns no highlighter, for every file path.
C21_PlainTextIffNoHighlighter ==
    lastCall.op = "setLanguage" =>
        (lastCall.result.name = "Plain Text"
            <=> lastCall.result.lexer = NoHighlighter)

\* C22: at every moment at most one highlighter is attached to the editor's
\* document and it is the object Editor.Highlighter refers to, and no
\* highlighter that was attached before a selection (by LoadFile or from
\* the language menu) is attached after it.
C22_OneHighlighterAttached ==
    /\ [](document \subseteq {instance} /\ Cardinality(document) <= 1)
    /\ [][(instance' # instance \/ document' # document)
             => document \cap document' = {}]_vars

\* C22 witness: a selection from the language menu, after a LoadFile of a
\* Python file, has replaced an attached highlighter by a new one.
C22_Witness ==
    /\ lastCall.op = "SetLanguage"
    /\ completer = create_completer("Python")
    /\ instance = 2
    /\ document = {instance}
    /\ Highlighter # NoHighlighter

\* C23: after any sequence of LoadFile and language-menu selections the
\* editor's completer is the one create_completer builds for the editor's
\* current Language.
C23_CompleterOfCurrentLanguage ==
    completer = create_completer(Language)

\* The paths added under a key so far.
AddedPaths(key) == {path \in RecentPaths : recent.rank[key][path] > 0}

\* C24: after any sequence of add_recent_file and add_recent_folder calls on
\* a Settings object whose lists were empty, each stored list has no
\* duplicates and at most 10 entries, holds the most recently added paths,
\* the one added last first, and the others in the order of their last
\* addition.
C24_RecentListOrdered ==
    \A key \in RecentKeys :
        LET stored == data[key].items
            rank == recent.rank[key]
        IN  /\ \A i, j \in 1..Len(stored) : stored[i] = stored[j] => i = j
            /\ Len(stored) <= MaxRecent
            /\ Len(stored) = Min(MaxRecent, Cardinality(AddedPaths(key)))
            /\ \A i \in 1..Len(stored) :
                  rank[stored[i]] = Cardinality(AddedPaths(key)) - i + 1

\* C24 witness: the list of recent files is full, a path has dropped off
\* it, and a path that was in the list has been added again and moved to
\* the front from a place further back.
C24_Witness ==
    /\ Len(data["recentFiles"].items) = MaxRecent
    /\ Cardinality(AddedPaths("recentFiles")) > MaxRecent
    /\ recent.repeats > 0
    /\ data["recentFiles"].items[1] < data["recentFiles"].items[2]
    /\ Len(data["recentFolders"].items) > 0

\* C25: no sequence of Settings.load, Settings.set, add_recent_file and
\* add_recent_folder calls changes a value of the DEFAULT_SETTINGS table,
\* at any depth.
C25_DefaultsNeverModified ==
    DEFAULT_SETTINGS = HardcodedSettings

====
